---- MODULE Spec2Model ----
(***************************************************************************)
(* A model of the grammar-guided genetic programming package gggp:         *)
(* grammar.py (productions, random derivation), tree.py (expression        *)
(* building and evaluation), complexity.py, fitness.py, selection.py,      *)
(* variation.py (crossover, mutation) and population.py.                   *)
(*                                                                         *)
(* Numbers.  A Python float is modelled as an extended rational [n, d]:    *)
(* d > 0 is the finite value n/d in lowest terms, d = 0 is +inf (n = 1),   *)
(* -inf (n = -1) or nan (n = 0).  Rounding is not modelled; the finite     *)
(* range is: a finite result whose magnitude exceeds FloatMax becomes an   *)
(* infinity under +, -, *, / and raises OverflowError under ** (as         *)
(* CPython's float_pow does).                                              *)
(*                                                                         *)
(* Randomness.  Every rng.choice / rng.sample / rng.random is a            *)
(* nondeterministic choice over all the values the call can return.        *)
(***************************************************************************)
EXTENDS Integers, Sequences, FiniteSets, TLC

VARIABLES
    grammar,              \* Grammar._productions: non-terminal -> list of productions
    max_depth,            \* the max_depth handed to generate / Population
    cases,                \* FitnessEvaluator.cases
    penalty_coefficient,  \* FitnessEvaluator.penalty_coefficient (a float)
    size,                 \* Population.size
    individuals,          \* Population.individuals (the Individual objects alive)
    new_population,       \* the local list of evolve_one_generation
    pc,                   \* position inside evolve_one_generation ("idle" outside)
    next_id,              \* identity of the next Individual object created
    generation,           \* completed evolve_one_generation calls
    result                \* the last call: its name, what it returned or raised

vars == <<grammar, max_depth, cases, penalty_coefficient, size,
          individuals, new_population, pc, next_id, generation, result>>

(***************************************************************************)
(* Bounds of the model.                                                    *)
(***************************************************************************)
\* Magnitude of the largest finite float of the model (sys.float_info.max).
FloatMax == 20
\* Grammar.generate is explored up to trees of this height.
MaxTreeDepth == 7
\* Largest max_depth handed to Grammar.generate.
MaxMaxDepth == 2

(***************************************************************************)
(* Floats                                                                  *)
(***************************************************************************)
Abs(i) == IF i < 0 THEN -i ELSE i

Sign(i) == IF i < 0 THEN -1 ELSE IF i > 0 THEN 1 ELSE 0

RECURSIVE GCD(_, _)
GCD(a, b) == IF b = 0 THEN a ELSE GCD(b, a % b)

PosInf == [n |-> 1, d |-> 0]
NegInf == [n |-> -1, d |-> 0]
NaN == [n |-> 0, d |-> 0]

IsFinite(a) == a.d > 0
IsNaN(a) == a.d = 0 /\ a.n = 0
IsInf(a) == a.d = 0 /\ a.n # 0

\* The rational num/den (den # 0) in lowest terms with a positive denominator.
Rat(num, den) ==
    LET g == GCD(Abs(num), Abs(den))
        s == IF den < 0 THEN -1 ELSE 1
    IN  [n |-> s * (num \div g), d |-> s * (den \div g)]

Int2Float(i) == [n |-> i, d |-> 1]

\* Whether the magnitude of the finite value r is beyond the float range.
OutOfRange(r) == Abs(r.n) > FloatMax * r.d

\* The result of +, -, *, / on floats: a value beyond the range is an infinity.
Overflowing(num, den) ==
    LET r == Rat(num, den)
    IN  IF OutOfRange(r) THEN [n |-> Sign(r.n), d |-> 0] ELSE r

FNeg(a) == [n |-> -a.n, d |-> a.d]

FAdd(a, b) ==
    IF IsNaN(a) \/ IsNaN(b) THEN NaN
    ELSE IF IsInf(a) /\ IsInf(b) THEN (IF a.n = b.n THEN a ELSE NaN)
    ELSE IF IsInf(a) THEN a
    ELSE IF IsInf(b) THEN b
    ELSE Overflowing(a.n * b.d + b.n * a.d, a.d * b.d)

FSub(a, b) == FAdd(a, FNeg(b))

FMul(a, b) ==
    IF IsNaN(a) \/ IsNaN(b) THEN NaN
    ELSE IF IsInf(a) \/ IsInf(b)
         THEN (IF a.n = 0 \/ b.n = 0 THEN NaN ELSE [n |-> Sign(a.n) * Sign(b.n), d |-> 0])
    ELSE Overflowing(a.n * b.n, a.d * b.d)

\* left / right for a right operand that is not zero.
FDiv(a, b) ==
    IF IsNaN(a) \/ IsNaN(b) THEN NaN
    ELSE IF IsInf(a) /\ IsInf(b) THEN NaN
    ELSE IF IsInf(b) THEN Int2Float(0)
    ELSE IF IsInf(a) THEN [n |-> Sign(a.n) * Sign(b.n), d |-> 0]
    ELSE Overflowing(a.n * b.d, a.d * b.n)

\* a < b; every comparison with nan is false.
FLt(a, b) ==
    IF IsNaN(a) \/ IsNaN(b) THEN FALSE
    ELSE IF IsInf(a) THEN a.n < 0 /\ b # NegInf
    ELSE IF IsInf(b) THEN b.n > 0
    ELSE a.n * b.d < b.n * a.d

FGt(a, b) == FLt(b, a)

FAbs(a) == [n |-> Abs(a.n), d |-> a.d]

(***************************************************************************)
(* Symbols and tokens                                                      *)
(***************************************************************************)
NonTerminalSymbols == {"<expr>", "<operation>", "<var>", "<const>", "<op>", "<digit>"}

VariableNames == {"x"}
OperatorSymbols == {"+", "-", "*", "/"}

\* str(value) of the numeric constants a grammar is built from ...
Str(value) == CASE value = 0 -> "0" [] value = 1 -> "1" [] value = 2 -> "2"

NumericTokens == {"0", "1", "2"}

\* ... and float(token): a token that is no numeral raises ValueError.
ParseFloat(token) ==
    CASE token = "0" -> Int2Float(0)
      [] token = "1" -> Int2Float(1)
      [] token = "2" -> Int2Float(2)

\* Grammar.is_non_terminal: the symbol is enclosed in angle brackets.
is_non_terminal(symbol) == symbol \in NonTerminalSymbols

(***************************************************************************)
(* Derivation trees (values: symbol and ordered children)                  *)
(***************************************************************************)
DerivationNode(symbol, children) == [symbol |-> symbol, children |-> children]

\* DerivationNode.is_terminal
is_terminal(node) == ~is_non_terminal(node.symbol)

RECURSIVE SumSeq(_)
SumSeq(s) == IF s = <<>> THEN 0 ELSE Head(s) + SumSeq(Tail(s))

\* A maximum that looks at the first element only.
MaxSeq_First(s) == Head(s)

RECURSIVE MaxSeq(_)
MaxSeq(s) == IF Len(s) = 1 THEN Head(s)
             ELSE LET m == MaxSeq(Tail(s)) IN IF Head(s) > m THEN Head(s) ELSE m

\* complexity._metrics: (node_count, depth, terminal_count)
RECURSIVE _metrics(_)
RECURSIVE MetricsEach(_)
RECURSIVE Column(_, _)
\* [m[k] for m in ms]
Column(ms, k) == IF ms = <<>> THEN <<>> ELSE <<Head(ms)[k]>> \o Column(Tail(ms), k)

_metrics(node) ==
    IF node.children = <<>>
    THEN <<1, 1, IF is_non_terminal(node.symbol) THEN 0 ELSE 1>>
    ELSE LET child_metrics == MetricsEach(node.children)
         IN  << 1 + SumSeq(Column(child_metrics, 1)),
                1 + MaxSeq(Column(child_metrics, 2)),
                SumSeq(Column(child_metrics, 3)) >>

\* [_metrics(child) for child in children]
MetricsEach(children) ==
    IF children = <<>> THEN <<>>
    ELSE <<_metrics(Head(children))>> \o MetricsEach(Tail(children))

\* complexity.compute_metrics
compute_metrics(node) ==
    LET m == _metrics(node)
    IN  [node_count |-> m[1], depth |-> m[2], terminal_count |-> m[3]]

(***************************************************************************)
(* Grammar                                                                 *)
(***************************************************************************)
\* Grammar.productions_for: the registered productions, or the empty list.
productions_for(P, non_terminal) ==
    IF non_terminal \in DOMAIN P THEN P[non_terminal] ELSE <<>>

\* Grammar.add_rule: append one production (setdefault, then append).
add_rule(P, non_terminal, expansion) ==
    [s \in DOMAIN P \cup {non_terminal} |->
        IF s = non_terminal THEN Append(productions_for(P, s), expansion) ELSE P[s]]

\* The Python values handed to inject_terminals: a str or an int.
PyStr(s) == [str |-> s]
PyInt(i) == [int |-> i]

RECURSIVE PyStrs(_)
PyStrs(tokens) ==
    IF tokens = <<>> THEN <<>> ELSE <<PyStr(Head(tokens))>> \o PyStrs(Tail(tokens))

\* str(term): a str is returned as it is, a number is formatted.
StrTerm(term) == IF "str" \in DOMAIN term THEN term.str ELSE Str(term.int)

\* [Production((value,)) for value in cleaned], cleaned = [str(term) ...]
RECURSIVE Cleaned(_)
Cleaned(terminals) ==
    IF terminals = <<>> THEN <<>>
    ELSE << <<StrTerm(Head(terminals))>> >> \o Cleaned(Tail(terminals))

\* A grammar that keeps the productions the non-terminal had and adds the
\* injected ones after them.
inject_terminals_Append(P, non_terminal, terminals) ==
    IF terminals = <<>> THEN [err |-> "GrammarError", productions |-> P]
    ELSE [err |-> "none",
          productions |->
            [s \in DOMAIN P \cup {non_terminal} |->
                IF s = non_terminal
                THEN productions_for(P, s) \o Cleaned(terminals)
                ELSE P[s]]]

\* Grammar.inject_terminals: the exception it raises ("none" when it
\* returns) and the productions of the grammar after the call.
inject_terminals(P, non_terminal, terminals) ==
    IF terminals = <<>> THEN [err |-> "GrammarError", productions |-> P]
    ELSE [err |-> "none",
          productions |->
            [s \in DOMAIN P \cup {non_terminal} |->
                IF s = non_terminal THEN Cleaned(terminals) ELSE P[s]]]

EmptyGrammar == [s \in {} |-> <<>>]

start_symbol == "<expr>"

\* [str(value) for value in constants]
RECURSIVE StrEach(_)
StrEach(constants) ==
    IF constants = <<>> THEN <<>>
    ELSE <<PyStr(Str(Head(constants)))>> \o StrEach(Tail(constants))

\* grammar.build_arithmetic_grammar, for non-empty lists of variables,
\* constants and operations (an empty one makes inject_terminals raise).
build_arithmetic_grammar(variables, constants, operations) ==
    LET g1 == add_rule(EmptyGrammar, "<expr>", <<"<operation>">>)
        g2 == add_rule(g1, "<expr>", <<"<var>">>)
        g3 == add_rule(g2, "<expr>", <<"<const>">>)
        g4 == add_rule(g3, "<operation>", <<"<op>", "<expr>", "<expr>">>)
        g5 == inject_terminals(g4, "<var>", PyStrs(variables)).productions
        g6 == inject_terminals(g5, "<const>", StrEach(constants)).productions
    IN  inject_terminals(g6, "<op>", PyStrs(operations)).productions

\* Production.is_terminal_only
is_terminal_only(expansion) ==
    \A i \in 1..Len(expansion) : ~is_non_terminal(expansion[i])

\* Production.is_self_recursive
is_self_recursive(expansion, symbol) ==
    \E i \in 1..Len(expansion) : expansion[i] = symbol

\* Grammar._eligible_productions
_eligible_productions(symbol, productions, depth, maxd) ==
    IF depth < maxd THEN productions
    ELSE LET terminal_only == SelectSeq(productions, is_terminal_only)
             NotRecursive(prod) == ~is_self_recursive(prod, symbol)
             non_recursive == SelectSeq(productions, NotRecursive)
         IN  IF terminal_only # <<>> THEN terminal_only
             ELSE IF non_recursive # <<>> THEN non_recursive
             ELSE productions

\* The outcome of an expansion that raised GrammarError.
GrammarError == DerivationNode("GrammarError", <<>>)

\* Grammar._expand: the trees of height at most fuel it can return for
\* `symbol` at `depth`, over all choices of rng.choice.
RECURSIVE _expand(_, _, _, _, _)
RECURSIVE ExpandTokens(_, _, _, _, _)
_expand(P, symbol, depth, maxd, fuel) ==
    IF fuel = 0 THEN {}
    ELSE IF ~is_non_terminal(symbol) THEN {DerivationNode(symbol, <<>>)}
    ELSE LET productions == productions_for(P, symbol) IN
         IF productions = <<>> THEN {GrammarError}
         ELSE LET options == _eligible_productions(symbol, productions, depth, maxd)
              IN  UNION { { IF \E i \in 1..Len(children) : children[i] = GrammarError
                            THEN GrammarError
                            ELSE DerivationNode(symbol, children)
                            : children \in ExpandTokens(P, options[k], depth + 1, maxd, fuel - 1) }
                          : k \in 1..Len(options) }

\* The lists of children for the tokens of one production.
ExpandTokens(P, tokens, depth, maxd, fuel) ==
    IF tokens = <<>> THEN {<<>>}
    ELSE { <<first>> \o rest :
             first \in _expand(P, Head(tokens), depth, maxd, fuel),
             rest \in ExpandTokens(P, Tail(tokens), depth, maxd, fuel) }

\* Grammar.generate for max_depth >= 1 (max_depth < 1 raises ValueError).
generate(P, maxd, fuel) == _expand(P, start_symbol, 0, maxd, fuel)

(***************************************************************************)
(* Expression trees: building (ArithmeticTreeBuilder) and evaluation       *)
(***************************************************************************)
ExpressionNode(kind, value, children) ==
    [kind |-> kind, value |-> value, children |-> children]

\* The outcome of a build that raised: kind "error", value the exception.
Raised(exception) == ExpressionNode("error", exception, <<>>)

IsRaised(e) == e.kind = "error"

\* ArithmeticTreeBuilder._extract_token: the token, or "" when it raises
\* ValueError (a childless non-terminal).
RECURSIVE _extract_token(_)
_extract_token(node) ==
    IF node.children = <<>> /\ ~is_non_terminal(node.symbol) THEN node.symbol
    ELSE IF node.children # <<>> THEN _extract_token(node.children[1])
    ELSE ""

\* A builder that names the node after the non-terminal itself instead of the
\* token below it.
TokenNode_OwnSymbol(kind, node) == ExpressionNode(kind, node.symbol, <<>>)

\* ExpressionNode(kind, _extract_token(node.children[0])) of _convert;
\* node.children[0] of a childless node raises IndexError.
TokenNode(kind, node) ==
    IF node.children = <<>> THEN Raised("IndexError")
    ELSE LET token == _extract_token(node.children[1])
         IN  IF token = "" THEN Raised("ValueError") ELSE ExpressionNode(kind, token, <<>>)

\* ArithmeticTreeBuilder._convert
RECURSIVE _convert(_)
_convert(node) ==
    IF node.symbol = "<expr>" THEN
        IF node.children = <<>> THEN Raised("ValueError") ELSE _convert(node.children[1])
    ELSE IF node.symbol = "<operation>" THEN
        IF Len(node.children) # 3 THEN Raised("ValueError")
        ELSE LET operator == _extract_token(node.children[1]) IN
             IF operator = "" THEN Raised("ValueError")
             ELSE LET left == _convert(node.children[2]) IN
                  IF IsRaised(left) THEN left
                  ELSE LET right == _convert(node.children[3]) IN
                       IF IsRaised(right) THEN right
                       ELSE ExpressionNode("operator", operator, <<left, right>>)
    ELSE IF node.symbol = "<var>" THEN TokenNode("variable", node)
    ELSE IF node.symbol = "<const>" THEN TokenNode("constant", node)
    ELSE IF node.symbol = "<op>" THEN TokenNode("operator-token", node)
    ELSE IF ~is_non_terminal(node.symbol) THEN ExpressionNode("literal", node.symbol, <<>>)
    ELSE IF Len(node.children) = 1 THEN _convert(node.children[1])
    ELSE Raised("ValueError")

\* ArithmeticTreeBuilder.build
build(derivation) == _convert(derivation)

\* The outcome of an evaluation: the float returned, or the exception raised.
Returned(v) == [err |-> "none", v |-> v]
Failed(exception) == [err |-> exception, v |-> NaN]

\* tree._safe_division.  abs(right) < 1e-12 holds of a finite right operand
\* exactly when it is zero: the model's denominators are below 2^31, so its
\* least positive magnitude is above 1e-12; it is false of inf and of nan.
_safe_division(left, right) ==
    IF IsFinite(right) /\ right.n = 0 THEN Failed("ZeroDivisionError")
    ELSE Returned(FDiv(left, right))

\* tree.OPERATORS
OPERATORS == {"+", "-", "*", "/"}

ApplyOperator(op, left, right) ==
    CASE op = "+" -> Returned(FAdd(left, right))
      [] op = "-" -> Returned(FSub(left, right))
      [] op = "*" -> Returned(FMul(left, right))
      [] op = "/" -> _safe_division(left, right)

\* ExpressionNode.evaluate
RECURSIVE evaluate(_, _)
evaluate(node, context) ==
    IF node.kind = "variable" THEN
        IF node.value \notin DOMAIN context THEN Failed("KeyError")
        ELSE Returned(context[node.value])
    ELSE IF node.kind = "constant" THEN
        IF node.value \in NumericTokens THEN Returned(ParseFloat(node.value))
        ELSE Failed("ValueError")
    ELSE IF node.kind = "operator" THEN
        IF node.value \notin OPERATORS THEN Failed("ValueError")
        ELSE IF Len(node.children) # 2 THEN Failed("ValueError")
        ELSE LET left == evaluate(node.children[1], context) IN
             IF left.err # "none" THEN left
             ELSE LET right == evaluate(node.children[2], context) IN
                  IF right.err # "none" THEN right
                  ELSE ApplyOperator(node.value, left.v, right.v)
    ELSE Failed("ValueError")

\* ExpressionNode.collect_variables: the variable names below the node, in
\* order, with repetitions.
RECURSIVE collect_variables(_)
RECURSIVE CollectEach(_)
collect_variables(node) ==
    IF node.kind = "variable" THEN <<node.value>>
    ELSE CollectEach(node.children)

CollectEach(nodes) ==
    IF nodes = <<>> THEN <<>>
    ELSE collect_variables(Head(nodes)) \o CollectEach(Tail(nodes))

(***************************************************************************)
(* Fitness evaluator                                                       *)
(***************************************************************************)
FitnessCase(inputs, target) == [inputs |-> inputs, target |-> target]

\* (value - case.target) ** 2: float ** raises OverflowError when the result
\* of finite operands is beyond the float range.
SquaredError(value, target) ==
    LET diff == FSub(value, target) IN
    IF IsNaN(diff) THEN Returned(NaN)
    ELSE IF IsInf(diff) THEN Returned(PosInf)
    ELSE LET sq == Rat(diff.n * diff.n, diff.d * diff.d)
         IN  IF OutOfRange(sq) THEN Failed("OverflowError") ELSE Returned(sq)

CaughtByEvaluator == {"ZeroDivisionError", "ValueError", "KeyError"}

RECURSIVE FSum(_)
FSum(s) == IF s = <<>> THEN Int2Float(0) ELSE FAdd(FSum(SubSeq(s, 1, Len(s) - 1)), s[Len(s)])

\* FitnessEvaluator.evaluate_expression: the loop from case k on, with the
\* squared errors appended so far.
RECURSIVE EvaluateCases(_, _, _, _)
EvaluateCases(expression, cs, k, errors) ==
    IF k > Len(cs) THEN Returned(FNeg(FDiv(FSum(errors), Int2Float(Len(errors)))))
    ELSE LET value == evaluate(expression, cs[k].inputs) IN
         IF value.err \in CaughtByEvaluator THEN Returned(NegInf)
         ELSE IF value.err # "none" THEN value
         ELSE LET sq == SquaredError(value.v, cs[k].target) IN
              IF sq.err # "none" THEN sq
              ELSE EvaluateCases(expression, cs, k + 1, Append(errors, sq.v))

evaluate_expression(expression, cs) == EvaluateCases(expression, cs, 1, <<>>)

(***************************************************************************)
(* Individuals                                                             *)
(***************************************************************************)
\* Optional[float]: None is the empty sequence, a value v is <<v>>.
None == <<>>
Some(v) == <<v>>

\* The Individual object `id` with its five fields.
Individual(id, derivation, expression, complexity) ==
    [id |-> id, derivation |-> derivation, expression |-> expression,
     complexity |-> complexity, raw_fitness |-> None, adjusted_fitness |-> None]

\* ComplexityMetrics.scalar
scalar(complexity) == Int2Float(complexity.node_count)

\* FitnessEvaluator.evaluate with the penalty added instead of subtracted.
evaluator_evaluate_PenaltyAdded(individual, cs, coefficient) ==
    LET raw == evaluate_expression(individual.expression, cs) IN
    IF raw.err # "none" THEN [err |-> raw.err, v |-> NaN, val |-> individual]
    ELSE LET penalty == FMul(coefficient, scalar(individual.complexity))
             adjusted_fitness == FAdd(raw.v, penalty)
         IN  [err |-> "none", v |-> adjusted_fitness,
              val |-> [individual EXCEPT !.raw_fitness = Some(raw.v),
                                         !.adjusted_fitness = Some(adjusted_fitness)]]

\* FitnessEvaluator.evaluate: the individual after the call (val) and the
\* adjusted fitness returned (v), or the exception evaluate_expression let
\* through, which leaves the individual as it was.
evaluator_evaluate(individual, cs, coefficient) ==
    LET raw == evaluate_expression(individual.expression, cs) IN
    IF raw.err # "none" THEN [err |-> raw.err, v |-> NaN, val |-> individual]
    ELSE LET penalty == FMul(coefficient, scalar(individual.complexity))
             adjusted_fitness == FSub(raw.v, penalty)
         IN  [err |-> "none", v |-> adjusted_fitness,
              val |-> [individual EXCEPT !.raw_fitness = Some(raw.v),
                                         !.adjusted_fitness = Some(adjusted_fitness)]]

(***************************************************************************)
(* Selection                                                               *)
(***************************************************************************)
\* ComplexityMetrics compared by node_count alone.
ComplexityLe_NodeCountOnly(a, b) == a.node_count <= b.node_count

\* ComplexityMetrics.__le__ of dataclass(order=True): the order of the tuples
\* (node_count, depth, terminal_count).
ComplexityLe(a, b) ==
    \/ a.node_count < b.node_count
    \/ a.node_count = b.node_count /\ a.depth < b.depth
    \/ a.node_count = b.node_count /\ a.depth = b.depth
         /\ a.terminal_count <= b.terminal_count

\* selection.prefer_fittest: the individual returned (val), or ValueError.
prefer_fittest(individual_a, individual_b, tolerance) ==
    IF individual_a.adjusted_fitness = None \/ individual_b.adjusted_fitness = None
    THEN [err |-> "ValueError", val |-> individual_a]
    ELSE LET diff == FSub(individual_a.adjusted_fitness[1], individual_b.adjusted_fitness[1])
         IN  IF FGt(diff, tolerance) THEN [err |-> "none", val |-> individual_a]
             ELSE IF FLt(diff, FNeg(tolerance)) THEN [err |-> "none", val |-> individual_b]
             ELSE IF ComplexityLe(individual_a.complexity, individual_b.complexity)
                  THEN [err |-> "none", val |-> individual_a]
                  ELSE [err |-> "none", val |-> individual_b]

\* The default tolerance of prefer_fittest, 1e-12.  It is below what 32-bit
\* rationals can hold; the model uses 1e-3, and fitness values that differ
\* by nothing, by less than it and by more than it.
DefaultTolerance == Rat(1, 1000)

\* The default tournament_size of tournament_selection.
DefaultTournamentSize == 3

\* The lists rng.sample(participants, k) can return, as lists of positions:
\* k pairwise distinct positions in any order.
Samples(n, k) ==
    { s \in [1..k -> 1..n] : \A i, j \in 1..k : i # j => s[i] # s[j] }

\* A loop that keeps the first contender whatever the others are.
Reduce_KeepFirst(winner, contenders, k) == [err |-> "none", val |-> winner]

\* The loop of tournament_selection over contenders[1:], from position k on.
RECURSIVE Reduce(_, _, _)
Reduce(winner, contenders, k) ==
    IF k > Len(contenders) THEN [err |-> "none", val |-> winner]
    ELSE LET r == prefer_fittest(winner, contenders[k], DefaultTolerance)
         IN  IF r.err # "none" THEN r ELSE Reduce(r.val, contenders, k + 1)

\* tournament_selection reducing over the whole population instead of the
\* contenders it sampled.
tournament_selection_AllParticipants(population, tournament_size, sample) ==
    IF Len(population) < tournament_size
    THEN [err |-> "ValueError", val |-> None, contenders |-> None, drawn |-> FALSE]
    ELSE LET contenders == [i \in 1..Len(sample) |-> population[sample[i]]]
             r == Reduce(population[1], population, 2)
         IN  [err |-> r.err, val |-> r.val, contenders |-> contenders, drawn |-> TRUE]

\* selection.tournament_selection, `sample` being what rng.sample returns when
\* it is called: the winner (val) and the contenders drawn, or the exception.
tournament_selection(population, tournament_size, sample) ==
    IF Len(population) < tournament_size
    THEN [err |-> "ValueError", val |-> None, contenders |-> None, drawn |-> FALSE]
    ELSE LET contenders == [i \in 1..Len(sample) |-> population[sample[i]]] IN
         IF contenders = <<>>
         THEN [err |-> "IndexError", val |-> None, contenders |-> contenders, drawn |-> TRUE]
         ELSE LET r == Reduce(contenders[1], contenders, 2)
              IN  [err |-> r.err, val |-> r.val, contenders |-> contenders, drawn |-> TRUE]

(***************************************************************************)
(* Variation on a heap of node objects                                     *)
(*                                                                         *)
(* The heap is a sequence of nodes [symbol, children], children being the  *)
(* positions of the child objects; an object is its position, and `is`     *)
(* compares positions.  Constructing a node appends to the heap.  Nothing  *)
(* in variation.py assigns to a field of an existing node.                 *)
(*                                                                         *)
(* TLC evaluates a LET definition and an operator argument where they are  *)
(* read, each time they are read.  The heap each step leaves is therefore  *)
(* bound as the element of a singleton set, which computes it once.        *)
(***************************************************************************)
TheOnly(S) == CHOOSE x \in S : TRUE

\* DerivationNode(symbol, children): a new object
NewNode(h, symbol, children) ==
    [h |-> Append(h, [symbol |-> symbol, children |-> children]), root |-> Len(h) + 1]

\* The objects of a tree value, children first, appended to the heap.
RECURSIVE Alloc(_, _)
RECURSIVE AllocChildren(_, _, _)
Alloc(h, tree) ==
    TheOnly({ NewNode(r.h, tree.symbol, r.ids)
              : r \in {AllocChildren(h, tree.children, <<>>)} })

AllocChildren(h, trees, ids) ==
    IF trees = <<>> THEN [h |-> h, ids |-> ids]
    ELSE TheOnly({ AllocChildren(first.h, Tail(trees), Append(ids, first.root))
                   : first \in {Alloc(h, Head(trees))} })

\* The tree value held at object `node`.
RECURSIVE ReadTree(_, _)
RECURSIVE ReadTrees(_, _)
ReadTree(h, node) == DerivationNode(h[node].symbol, ReadTrees(h, h[node].children))

ReadTrees(h, nodes) ==
    IF nodes = <<>> THEN <<>>
    ELSE <<ReadTree(h, Head(nodes))>> \o ReadTrees(h, Tail(nodes))

\* DerivationNode.traverse: the objects of the tree in pre-order.
RECURSIVE traverse(_, _)
RECURSIVE TraverseEach(_, _)
traverse(h, node) == <<node>> \o TraverseEach(h, h[node].children)

\* for child in self.children: yield from child.traverse()
TraverseEach(h, nodes) ==
    IF nodes = <<>> THEN <<>>
    ELSE traverse(h, Head(nodes)) \o TraverseEach(h, Tail(nodes))

\* variation.clone_tree: a new object per node; the heap after it and the copy.
RECURSIVE clone_tree(_, _)
RECURSIVE CloneChildren(_, _, _)
clone_tree(h, node) ==
    TheOnly({ NewNode(r.h, h[node].symbol, r.ids)
              : r \in {CloneChildren(h, h[node].children, <<>>)} })

\* [clone_tree(child) for child in node.children]
CloneChildren(h, nodes, ids) ==
    IF nodes = <<>> THEN [h |-> h, ids |-> ids]
    ELSE TheOnly({ CloneChildren(first.h, Tail(nodes), Append(ids, first.root))
                   : first \in {clone_tree(h, Head(nodes))} })

\* variation.replace_subtree: `root is target` compares objects.
RECURSIVE replace_subtree(_, _, _, _)
RECURSIVE ReplaceChildren(_, _, _, _, _)
replace_subtree(h, root, target, replacement) ==
    IF root = target THEN clone_tree(h, replacement)
    ELSE TheOnly({ NewNode(r.h, h[root].symbol, r.ids)
                   : r \in {ReplaceChildren(h, h[root].children, target, replacement, <<>>)} })

\* [replace_subtree(child, target, replacement) for child in root.children]
ReplaceChildren(h, nodes, target, replacement, ids) ==
    IF nodes = <<>> THEN [h |-> h, ids |-> ids]
    ELSE TheOnly({ ReplaceChildren(first.h, Tail(nodes), target, replacement,
                                   Append(ids, first.root))
                   : first \in {replace_subtree(h, Head(nodes), target, replacement)} })

\* The number of nodes of a tree value: len(list(node.traverse())).
RECURSIVE NodeCount(_)
RECURSIVE NodeCountEach(_)
NodeCount(tree) == 1 + NodeCountEach(tree.children)

NodeCountEach(trees) ==
    IF trees = <<>> THEN 0 ELSE NodeCount(Head(trees)) + NodeCountEach(Tail(trees))

\* What a variation call leaves: the exception raised if any, the child and
\* the heap after the call.
VariationOutcome(err, child, h) == [err |-> err, child |-> child, h |-> h]

\* Individual(derivation=tree, expression=builder.build(tree),
\*            complexity=compute_metrics(tree)) of crossover and mutation.
MakeChild(id, h, child_tree) ==
    TheOnly({ TheOnly({ VariationOutcome(IF IsRaised(expr) THEN expr.value ELSE "none",
                                         Individual(id, tree, expr, compute_metrics(tree)), h)
                        : expr \in {build(tree)} })
              : tree \in {ReadTree(h, child_tree)} })

\* crossover without the clone of parent_a: the copy of b's subtree is
\* written over the target object of parent_a's own tree.
crossover_InPlace(id, h0, root_a, root_b, i, j) ==
    LET a_sub == traverse(h0, root_a)[i]
        b_sub == traverse(h0, root_b)[j]
    IN  TheOnly(UNION { { MakeChild(id, h1, root_a)
                          : h1 \in {[copy.h EXCEPT ![a_sub] = copy.h[copy.root]]} }
                        : copy \in {clone_tree(h0, b_sub)} })

\* a_subtree = rng.choice(list(a_tree.traverse())), b_subtree likewise, and
\* child_tree = replace_subtree(a_tree, a_subtree, b_subtree), on the heap h
\* that holds the two clones; i and j are the positions rng.choice picks.
Splice(h, a_tree, b_tree, i, j) ==
    replace_subtree(h, a_tree, traverse(h, a_tree)[i], traverse(h, b_tree)[j])

\* variation.crossover on the heap h0 that holds the parents' trees at root_a
\* and root_b.
crossover(id, h0, root_a, root_b, i, j) ==
    TheOnly(UNION { UNION { { MakeChild(id, child_tree.h, child_tree.root)
                              : child_tree \in {Splice(b_tree.h, a_tree.root, b_tree.root, i, j)} }
                            : b_tree \in {clone_tree(a_tree.h, root_b)} }
                    : a_tree \in {clone_tree(h0, root_a)} })

\* variation.mutation; i is the position rng.choice picks and new_tree the
\* tree grammar.generate returns, GrammarError when it raises.
mutation(id, h0, root, i, new_tree) ==
    TheOnly(UNION {
      IF new_tree = GrammarError
      THEN { VariationOutcome("GrammarError", None, tree.h) }
      ELSE UNION { { MakeChild(id, mutated_tree.h, mutated_tree.root)
                     : mutated_tree \in {replace_subtree(new_subtree.h, tree.root,
                                                         traverse(tree.h, tree.root)[i],
                                                         new_subtree.root)} }
                   : new_subtree \in {Alloc(tree.h, new_tree)} }
      : tree \in {clone_tree(h0, root)} })

\* The heap holding the derivation trees of the given individuals, one tree
\* per Individual object, and the root of each.
RECURSIVE HeapOf(_)
HeapOf(inds) ==
    IF inds = <<>> THEN [h |-> <<>>, roots |-> <<>>]
    ELSE TheOnly(UNION { { [h |-> last.h, roots |-> Append(rest.roots, last.root)]
                           : last \in {Alloc(rest.h, inds[Len(inds)].derivation)} }
                         : rest \in {HeapOf(SubSeq(inds, 1, Len(inds) - 1))} })

(***************************************************************************)
(* Grammar generation: Grammar.generate on reference arithmetic grammars   *)
(***************************************************************************)
NoEvaluatorCases == <<>>
NoResult == [op |-> "none", err |-> "none"]

\* The argument lists build_arithmetic_grammar is called with; an empty
\* operations list stands for the default, + - * /.
VariableLists == {<<"x">>, <<"<const>">>}
ConstantLists == {<<1>>, <<0, 2>>}
OperationLists == {<<"+">>, <<"+", "/">>, <<"^">>, <<>>}

DefaultOperations == <<"+", "-", "*", "/">>

ReferenceGrammars ==
    { build_arithmetic_grammar(v, c, IF o = <<>> THEN DefaultOperations ELSE o) :
        v \in VariableLists, c \in ConstantLists, o \in OperationLists }

InitGen ==
    /\ grammar \in ReferenceGrammars
    /\ max_depth \in 1..MaxMaxDepth
    /\ cases = NoEvaluatorCases
    /\ penalty_coefficient = Int2Float(0)
    /\ size = 0
    /\ individuals = <<>>
    /\ new_population = <<>>
    /\ pc = "idle"
    /\ next_id = 1
    /\ generation = 0
    /\ result = NoResult

\* grammar.generate(rng, max_depth): one of the trees it can return.
Generate ==
    /\ result = NoResult
    /\ \E tree \in generate(grammar, max_depth, MaxTreeDepth) :
         result' = [op |-> "generate",
                    err |-> IF tree = GrammarError THEN "GrammarError" ELSE "none",
                    val |-> tree]
    /\ UNCHANGED <<grammar, max_depth, cases, penalty_coefficient, size,
                   individuals, new_population, pc, next_id, generation>>

\* The non-terminals (one of them without productions) and the lists of
\* terminals inject_terminals is called with.
InjectedNonTerminals == {"<var>", "<expr>", "<digit>"}
TerminalLists ==
    { <<>>, <<PyStr("x")>>, <<PyStr("y"), PyStr("x")>>,
      <<PyInt(2), PyStr("x")>>, <<PyInt(1), PyInt(1), PyInt(0)>> }

\* grammar.inject_terminals(non_terminal, terminals)
InjectTerminals ==
    /\ result = NoResult
    /\ \E non_terminal \in InjectedNonTerminals, terminals \in TerminalLists :
         \E outcome \in {inject_terminals(grammar, non_terminal, terminals)} :
            /\ grammar' = outcome.productions
            /\ result' = [op |-> "inject_terminals",
                          err |-> outcome.err,
                          non_terminal |-> non_terminal,
                          terminals |-> terminals,
                          before |-> grammar]
    /\ UNCHANGED <<max_depth, cases, penalty_coefficient, size,
                   individuals, new_population, pc, next_id, generation>>

NextGen == Generate

SpecGen == InitGen /\ [][NextGen]_vars

\* Terminal injection into the reference grammars.
NextInj == InjectTerminals

SpecInj == InitGen /\ [][NextInj]_vars

\* C2: every tree Grammar.generate returns for a reference arithmetic grammar
\* and max_depth >= 1 has depth (root counted as 1) at most max_depth + 4.
C2_GenerateDepthBounded ==
    (result.op = "generate" /\ result.err = "none")
        => compute_metrics(result.val).depth <= max_depth + 4

\* The terminals the grammar was built with, read back from the productions
\* inject_terminals gave the non-terminal.
RECURSIVE FirstTokens(_)
FirstTokens(productions) ==
    IF productions = <<>> THEN {}
    ELSE {Head(productions)[1]} \cup FirstTokens(Tail(productions))

Supplied(non_terminal) == FirstTokens(productions_for(grammar, non_terminal))

\* Bindings of all supplied variables.
BindingValues == {Int2Float(0), Int2Float(2), Int2Float(FloatMax)}
Bindings == [Supplied("<var>") -> BindingValues]

RECURSIVE WellFormed(_)
WellFormed(node) ==
    \/ /\ node.kind = "operator"
       /\ node.value \in Supplied("<op>")
       /\ Len(node.children) = 2
       /\ WellFormed(node.children[1])
       /\ WellFormed(node.children[2])
    \/ /\ node.kind = "variable"
       /\ node.value \in Supplied("<var>")
       /\ node.children = <<>>
    \/ /\ node.kind = "constant"
       /\ node.value \in Supplied("<const>")
       /\ node.children = <<>>

RECURSIVE Elements(_)
Elements(sequence) ==
    IF sequence = <<>> THEN {} ELSE {Head(sequence)} \cup Elements(Tail(sequence))

HasGenerated == result.op = "generate" /\ result.err = "none"

OnlyDivisionGuard(expression) ==
    \A binding \in Bindings :
        evaluate(expression, binding).err \in {"none", "ZeroDivisionError"}

\* Every supplied variable name and constant is a terminal (not a name in
\* angle brackets), and every supplied operator is registered in OPERATORS.
NamesAreTerminals ==
    \A name \in Supplied("<var>") \cup Supplied("<const>") \cup Supplied("<op>") :
        ~is_non_terminal(name)

OperatorsRegistered == Supplied("<op>") \subseteq OPERATORS

HasInjected == result.op = "inject_terminals"

\* The string form the claim expects of the k-th injected terminal.
Stringified(terminals, k) == StrTerm(terminals[k])

\* C12: inject_terminals(N, T) with a non-empty T returns and leaves N with
\* exactly one single-token production per element of T, stringified and in
\* order, and every other non-terminal with the productions it had; with an
\* empty T it raises GrammarError and leaves the whole grammar as it was.
C12_InjectTerminalsReplaces ==
    HasInjected =>
        LET N == result.non_terminal
            T == result.terminals
        IN  IF T # <<>>
            THEN /\ result.err = "none"
                 /\ Len(productions_for(grammar, N)) = Len(T)
                 /\ \A k \in 1..Len(T) :
                        productions_for(grammar, N)[k] = <<Stringified(T, k)>>
                 /\ DOMAIN grammar = DOMAIN result.before \cup {N}
                 /\ \A other \in DOMAIN result.before \ {N} :
                        grammar[other] = result.before[other]
            ELSE /\ result.err = "GrammarError"
                 /\ grammar = result.before

\* An injection of a number and a name into a non-terminal that had other
\* productions before.
C12_Witness ==
    /\ HasInjected
    /\ result.err = "none"
    /\ Len(productions_for(result.before, result.non_terminal)) > Len(result.terminals)
    /\ \E k \in 1..Len(result.terminals) : "int" \in DOMAIN result.terminals[k]
    /\ productions_for(grammar, result.non_terminal) = << <<"2">>, <<"x">> >>

(***************************************************************************)
(* Fitness evaluation: FitnessEvaluator on hand-built individuals, as in   *)
(* tests/test_fitness.py                                                   *)
(***************************************************************************)
\* An input so large that its square is beyond the float range.
BigInput == 5

Var(name) == ExpressionNode("variable", name, <<>>)
Const(token) == ExpressionNode("constant", token, <<>>)
Op(symbol, operands) == ExpressionNode("operator", symbol, operands)

\* Expressions handed to the evaluator: well-formed ones and one for each way
\* ExpressionNode.evaluate can fail.
ExpressionPool ==
    { Var("x"), Const("1"),
      Op("+", <<Var("x"), Const("1")>>),
      Op("*", <<Var("x"), Var("x")>>),
      Op("/", <<Const("1"), Var("x")>>),
      Op("-", <<Op("*", <<Var("x"), Var("x")>>), Op("*", <<Var("x"), Var("x")>>)>>),
      Var("y"), Const("x"),
      Op("^", <<Var("x"), Const("1")>>),
      Op("+", <<Var("x")>>),
      ExpressionNode("literal", "x", <<>>) }

InputPool == {0, 1, BigInput}
TargetPool == {0, 1}

CasePool ==
    { FitnessCase([name \in {"x"} |-> Int2Float(x)], Int2Float(t)) :
        x \in InputPool, t \in TargetPool }

\* FitnessEvaluator.__init__ refuses an empty list of cases.
CaseLists == { <<c>> : c \in CasePool } \cup { <<c1, c2>> : c1, c2 \in CasePool }

PenaltyPool == { Rat(1, 10), Int2Float(1) }

NodeCountPool == {3, 10}

HandBuilt(id, expression, node_count) ==
    Individual(id, DerivationNode("<expr>", <<>>), expression,
               [node_count |-> node_count, depth |-> 2, terminal_count |-> 2])

InitFit ==
    /\ grammar = EmptyGrammar
    /\ max_depth = 1
    /\ cases \in CaseLists
    /\ penalty_coefficient \in PenaltyPool
    /\ size = 0
    /\ \E e \in ExpressionPool : \E n1, n2 \in NodeCountPool :
         individuals = <<HandBuilt(1, e, n1), HandBuilt(2, e, n2)>>
    /\ new_population = <<>>
    /\ pc = "idle"
    /\ next_id = 3
    /\ generation = 0
    /\ result = NoResult

\* evaluator.evaluate_expression(individuals[0].expression)
EvaluateExpression ==
    /\ LET r == evaluate_expression(individuals[1].expression, cases)
       IN  result' = [op |-> "evaluate_expression", err |-> r.err, v |-> r.v]
    /\ UNCHANGED <<grammar, max_depth, cases, penalty_coefficient, size,
                   individuals, new_population, pc, next_id, generation>>

\* evaluator.evaluate(individuals[i])
EvaluateIndividual ==
    \E i \in 1..Len(individuals) :
        LET r == evaluator_evaluate(individuals[i], cases, penalty_coefficient) IN
        /\ individuals' = [individuals EXCEPT ![i] = r.val]
        /\ result' = [op |-> "evaluate", err |-> r.err, v |-> r.v]
        /\ UNCHANGED <<grammar, max_depth, cases, penalty_coefficient, size,
                       new_population, pc, next_id, generation>>

NextFit == EvaluateExpression \/ EvaluateIndividual

SpecFit == InitFit /\ [][NextFit]_vars

\* Whether evaluating the expression fails on at least one fitness case.
FailsOnSomeCase(expression, cs) ==
    \E k \in 1..Len(cs) : evaluate(expression, cs[k].inputs).err # "none"

\* The negated mean of the squared errors over all cases.
NegatedMeanSquaredError(expression, cs) ==
    LET sq(k) == LET diff == FSub(evaluate(expression, cs[k].inputs).v, cs[k].target)
                 IN  FMul(diff, diff)
    IN  FNeg(FDiv(FSum([k \in 1..Len(cs) |-> sq(k)]), Int2Float(Len(cs))))

\* C3: evaluate_expression raises nothing; it returns -inf when the
\* expression fails on at least one case, whatever its position, and the
\* negated mean of the squared errors over all cases otherwise.
C3_EvaluateExpressionNeverRaises ==
    result.op = "evaluate_expression" =>
        /\ result.err = "none"
        /\ result.v = IF FailsOnSomeCase(individuals[1].expression, cases)
                      THEN NegInf
                      ELSE NegatedMeanSquaredError(individuals[1].expression, cases)

BothEvaluated ==
    /\ Len(individuals) = 2
    /\ individuals[1].raw_fitness # None
    /\ individuals[2].raw_fitness # None

\* The individual with the larger node_count, and the other one.
Larger == IF individuals[1].complexity.node_count > individuals[2].complexity.node_count
          THEN individuals[1] ELSE individuals[2]
Smaller == IF individuals[1].complexity.node_count > individuals[2].complexity.node_count
           THEN individuals[2] ELSE individuals[1]

DifferentNodeCounts ==
    individuals[1].complexity.node_count # individuals[2].complexity.node_count

\* C7 as stated: two individuals with the same expression and different node
\* counts get the same raw_fitness, and the larger one a strictly lower
\* adjusted_fitness.
C7_ParsimonyStrict ==
    (BothEvaluated /\ DifferentNodeCounts) =>
        /\ individuals[1].raw_fitness = individuals[2].raw_fitness
        /\ FLt(Larger.adjusted_fitness[1], Smaller.adjusted_fitness[1])

\* C7 as amended: the same raw_fitness, adjusted_fitness = raw_fitness -
\* penalty_coefficient * node_count, so the larger individual's adjusted
\* fitness is never higher, and it is strictly lower when both adjusted
\* fitnesses are finite.
C7_ParsimonyMonotone ==
    (BothEvaluated /\ DifferentNodeCounts) =>
        /\ individuals[1].raw_fitness = individuals[2].raw_fitness
        /\ \A i \in 1..2 :
             individuals[i].adjusted_fitness[1] =
                FSub(individuals[i].raw_fitness[1],
                     FMul(penalty_coefficient, Int2Float(individuals[i].complexity.node_count)))
        /\ ~FGt(Larger.adjusted_fitness[1], Smaller.adjusted_fitness[1])
        /\ (IsFinite(Larger.adjusted_fitness[1]) /\ IsFinite(Smaller.adjusted_fitness[1]))
              => FLt(Larger.adjusted_fitness[1], Smaller.adjusted_fitness[1])

\* Two individuals of different node counts, scored with a finite raw
\* fitness, the larger one strictly lower.
C7_Witness ==
    /\ BothEvaluated /\ DifferentNodeCounts
    /\ IsFinite(Larger.raw_fitness[1])
    /\ FLt(Larger.adjusted_fitness[1], Smaller.adjusted_fitness[1])

(***************************************************************************)
(* Selection on hand-built individuals, as in tests/test_selection.py      *)
(***************************************************************************)
\* Largest population and largest tournament_size tried.
MaxContestants == 3
MaxTournamentSize == 4

ComplexityPool ==
    { [node_count |-> 3, depth |-> 1, terminal_count |-> 1],
      [node_count |-> 3, depth |-> 2, terminal_count |-> 1],
      [node_count |-> 3, depth |-> 2, terminal_count |-> 2],
      [node_count |-> 5, depth |-> 1, terminal_count |-> 1] }

\* adjusted_fitness of a hand-built individual: unset, -inf or finite.
FitnessPool == { None, Some(NegInf), Some(Int2Float(-1)), Some(Rat(-1, 2)), Some(Int2Float(0)) }

\* The pools for lists of three individuals and more.
TournamentComplexityPool ==
    { [node_count |-> 3, depth |-> 1, terminal_count |-> 1],
      [node_count |-> 5, depth |-> 1, terminal_count |-> 1] }
TournamentFitnessPool ==
    { None, Some(NegInf), Some(Rat(-3, 2500)), Some(Rat(-3, 5000)), Some(Int2Float(0)) }

TolerancePool == { DefaultTolerance, Rat(1, 2), Int2Float(1) }

\* tests/test_selection.py: _constant_individual
_constant_individual(id, complexity, fitness) ==
    [id |-> id, derivation |-> DerivationNode("<expr>", <<>>),
     expression |-> Const("1"), complexity |-> complexity,
     raw_fitness |-> None, adjusted_fitness |-> fitness]

InitSel ==
    /\ grammar = EmptyGrammar
    /\ max_depth = 1
    /\ cases = NoEvaluatorCases
    /\ penalty_coefficient = Int2Float(0)
    /\ size \in 2..MaxContestants
    /\ \E c \in [1..size -> IF size = 2 THEN ComplexityPool ELSE TournamentComplexityPool],
          f \in [1..size -> IF size = 2 THEN FitnessPool ELSE TournamentFitnessPool] :
         individuals = [i \in 1..size |-> _constant_individual(i, c[i], f[i])]
    /\ new_population = <<>>
    /\ pc = "idle"
    /\ next_id = size + 1
    /\ generation = 0
    /\ result = NoResult

\* prefer_fittest(individuals[a], individuals[b], tolerance)
PreferFittest ==
    /\ result = NoResult
    /\ \E a, b \in 1..Len(individuals), tolerance \in TolerancePool :
         LET r == prefer_fittest(individuals[a], individuals[b], tolerance)
         IN  result' = [op |-> "prefer_fittest", err |-> r.err, val |-> r.val,
                        a |-> individuals[a], b |-> individuals[b], tolerance |-> tolerance]
    /\ UNCHANGED <<grammar, max_depth, cases, penalty_coefficient, size,
                   individuals, new_population, pc, next_id, generation>>

\* tournament_selection(individuals, tournament_size, rng)
TournamentSelection ==
    /\ result = NoResult
    /\ \E tournament_size \in 1..MaxTournamentSize :
         \E sample \in IF Len(individuals) < tournament_size THEN {<<>>}
                       ELSE Samples(Len(individuals), tournament_size) :
           LET r == tournament_selection(individuals, tournament_size, sample)
           IN  result' = [op |-> "tournament_selection", err |-> r.err, val |-> r.val,
                          contenders |-> r.contenders, drawn |-> r.drawn,
                          tournament_size |-> tournament_size]
    /\ UNCHANGED <<grammar, max_depth, cases, penalty_coefficient, size,
                   individuals, new_population, pc, next_id, generation>>

NextSel == PreferFittest \/ TournamentSelection

SpecSel == InitSel /\ [][NextSel]_vars

AllEvaluated == \A i \in 1..Len(individuals) : individuals[i].adjusted_fitness # None

\* C5: on an evaluated population tournament_selection returns one of the
\* tournament_size pairwise distinct individuals it sampled from the
\* population, and when tournament_size exceeds the population size it raises
\* without drawing a sample.
C5_TournamentReturnsContender ==
    (result.op = "tournament_selection" /\ AllEvaluated) =>
        IF result.tournament_size > Len(individuals)
        THEN result.err = "ValueError" /\ ~result.drawn
        ELSE /\ result.err = "none"
             /\ result.drawn
             /\ Len(result.contenders) = result.tournament_size
             /\ \A i, j \in 1..Len(result.contenders) :
                  i # j => result.contenders[i].id # result.contenders[j].id
             /\ \A i \in 1..Len(result.contenders) :
                  \E k \in 1..Len(individuals) : individuals[k] = result.contenders[i]
             /\ \E i \in 1..Len(result.contenders) : result.contenders[i] = result.val

\* A tournament of two drawn from three evaluated individuals returned a winner.
C5_Witness ==
    /\ result.op = "tournament_selection" /\ AllEvaluated
    /\ result.tournament_size = 2 /\ Len(individuals) = 3
    /\ result.err = "none"
    /\ result.val.id \in {1, 2, 3}

\* (node_count, depth, terminal_count) of a strictly smaller than that of b.
MetricsTuple(c) == <<c.node_count, c.depth, c.terminal_count>>
LexLess(s, t) ==
    \E k \in 1..3 : s[k] < t[k] /\ \A j \in 1..(k - 1) : s[j] = t[j]

\* The fitness f exceeds the fitness g by more than the tolerance.
ExceedsBy(f, g, tolerance) == FGt(f, FAdd(g, tolerance))

\* C6: prefer_fittest returns the individual whose adjusted fitness is higher
\* by more than the tolerance, whatever the complexities; within the
\* tolerance it returns the one with the lexicographically smaller
\* (node_count, depth, terminal_count), and a when these are equal; it raises
\* when either individual has no adjusted fitness.
C6_PreferFittest ==
    result.op = "prefer_fittest" =>
        IF result.a.adjusted_fitness = None \/ result.b.adjusted_fitness = None
        THEN result.err = "ValueError"
        ELSE /\ result.err = "none"
             /\ LET fa == result.a.adjusted_fitness[1]
                    fb == result.b.adjusted_fitness[1]
                IN  IF ExceedsBy(fa, fb, result.tolerance) THEN result.val = result.a
                    ELSE IF ExceedsBy(fb, fa, result.tolerance) THEN result.val = result.b
                    ELSE IF LexLess(MetricsTuple(result.b.complexity),
                                    MetricsTuple(result.a.complexity))
                         THEN result.val = result.b
                         ELSE result.val = result.a

\* A tie within the tolerance between different fitnesses, decided for b by
\* the depth alone.
C6_Witness ==
    /\ result.op = "prefer_fittest" /\ result.err = "none"
    /\ result.a.adjusted_fitness # result.b.adjusted_fitness
    /\ result.a.complexity.node_count = result.b.complexity.node_count
    /\ result.b.complexity.depth < result.a.complexity.depth
    /\ result.val = result.b /\ result.a.id # result.b.id

HasSelected == result.op = "tournament_selection" /\ result.err = "none"

Fitness(individual) == individual.adjusted_fitness[1]

\* Neither fitness exceeds the other by more than the default tolerance.
Tied(a, b) ==
    /\ ~ExceedsBy(Fitness(a), Fitness(b), DefaultTolerance)
    /\ ~ExceedsBy(Fitness(b), Fitness(a), DefaultTolerance)

\* No contender beats the winner: none is fitter by more than the tolerance
\* and none of those tied with it has strictly smaller complexity metrics.
WinnerIsBest ==
    \A i \in 1..Len(result.contenders) :
        LET contender == result.contenders[i] IN
            /\ ~ExceedsBy(Fitness(contender), Fitness(result.val), DefaultTolerance)
            /\ Tied(contender, result.val) =>
                  ~LexLess(MetricsTuple(contender.complexity),
                           MetricsTuple(result.val.complexity))

\* Being tied is transitive on the sample: no contender is tied with two
\* others that are more than the tolerance apart.
TiesTransitive ==
    \A i, j, k \in 1..Len(result.contenders) :
        (Tied(result.contenders[i], result.contenders[j])
            /\ Tied(result.contenders[j], result.contenders[k]))
        => Tied(result.contenders[i], result.contenders[k])

\* C13 as stated: whatever order the sample is drawn in, no contender of a
\* tournament on evaluated individuals has an adjusted fitness exceeding the
\* winner's by more than the tolerance, and no contender tied with the winner
\* has strictly smaller complexity metrics.
C13_WinnerIsBestContender ==
    (HasSelected /\ AllEvaluated) => WinnerIsBest

\* C13 amended: the same, for samples on which being tied within the
\* tolerance is transitive.
C13_WinnerIsBestWhenTiesTransitive ==
    (HasSelected /\ AllEvaluated /\ TiesTransitive) => WinnerIsBest

\* A tournament of three: the winner is tied with a fitter but more complex
\* contender, and the third contender is far behind.
C13_Witness ==
    /\ HasSelected /\ AllEvaluated /\ TiesTransitive
    /\ Len(result.contenders) = 3
    /\ Fitness(result.val) = Rat(-3, 5000)
    /\ \E i \in 1..3 :
          /\ Fitness(result.contenders[i]) = Int2Float(0)
          /\ result.contenders[i].complexity.node_count > result.val.complexity.node_count
    /\ \E i \in 1..3 : Fitness(result.contenders[i]) = NegInf

(***************************************************************************)
(* Variation: crossover and mutation on generated individuals, and on      *)
(* their children                                                          *)
(***************************************************************************)
\* Parents are generated up to this tree height.
VarTreeDepth == 5
\* A child becomes a parent of later calls when it has at most this many
\* nodes, and at most this many times.
MaxAdoptNodes == 3
MaxAdoptions == 1

\* Individual.generate, for the tree grammar.generate returned.
generate_individual(id, tree) == Individual(id, tree, build(tree), compute_metrics(tree))

VarGrammar == build_arithmetic_grammar(<<"x">>, <<1>>, <<"+">>)
VarMaxDepth == 1
\* What grammar.generate(rng, max_depth) can return on VarGrammar, over the
\* draws of rng, up to the height VarTreeDepth.
VarTrees == generate(VarGrammar, VarMaxDepth, VarTreeDepth)
VarCases == <<FitnessCase([name \in {"x"} |-> Int2Float(1)], Int2Float(0))>>

InitVar ==
    /\ grammar = VarGrammar
    /\ max_depth = VarMaxDepth
    /\ cases = VarCases
    /\ penalty_coefficient = Rat(1, 10)
    /\ size = 2
    /\ \E t1, t2 \in VarTrees :
         individuals =
            << evaluator_evaluate(generate_individual(1, t1), cases, penalty_coefficient).val,
               evaluator_evaluate(generate_individual(2, t2), cases, penalty_coefficient).val >>
    /\ new_population = <<>>
    /\ pc = "idle"
    /\ next_id = 3
    /\ generation = 0
    /\ result = NoResult

\* The individuals as the heap of a call leaves them: each derivation read
\* back from the object it was allocated at.
ReadBack(inds, roots, h) ==
    [k \in 1..Len(inds) |-> [inds[k] EXCEPT !.derivation = ReadTree(h, roots[k])]]

\* crossover(individuals[a], individuals[b], rng)
Crossover ==
    /\ result = NoResult
    /\ \E a, b \in 1..Len(individuals) :
         \E i \in 1..NodeCount(individuals[a].derivation),
            j \in 1..NodeCount(individuals[b].derivation) :
           \E heap \in {HeapOf(individuals)} :
           \E r \in {crossover(next_id, heap.h, heap.roots[a], heap.roots[b], i, j)} :
               /\ individuals' = ReadBack(individuals, heap.roots, r.h)
               /\ result' = [op |-> "crossover", err |-> r.err, child |-> r.child,
                             a |-> a, b |-> b, i |-> i, j |-> j,
                             parents |-> individuals, before |-> heap.h,
                             after |-> SubSeq(r.h, 1, Len(heap.h))]
    /\ UNCHANGED <<grammar, max_depth, cases, penalty_coefficient, size,
                   new_population, pc, next_id, generation>>

\* mutation(individuals[a], grammar, rng, max_depth)
Mutation ==
    /\ result = NoResult
    /\ \E a \in 1..Len(individuals) :
         \E i \in 1..NodeCount(individuals[a].derivation),
            new_tree \in VarTrees :
           \E heap \in {HeapOf(individuals)} :
           \E r \in {mutation(next_id, heap.h, heap.roots[a], i, new_tree)} :
               /\ individuals' = ReadBack(individuals, heap.roots, r.h)
               /\ result' = [op |-> "mutation", err |-> r.err, child |-> r.child,
                             a |-> a, b |-> a, i |-> i, j |-> 0,
                             parents |-> individuals, before |-> heap.h,
                             after |-> SubSeq(r.h, 1, Len(heap.h))]
    /\ UNCHANGED <<grammar, max_depth, cases, penalty_coefficient, size,
                   new_population, pc, next_id, generation>>

\* The caller keeps the child as a parent of later calls, in place of one of
\* the two individuals.
Adopt ==
    /\ result.op \in {"crossover", "mutation"}
    /\ result.err = "none"
    /\ generation < MaxAdoptions
    /\ NodeCount(result.child.derivation) <= MaxAdoptNodes
    /\ \E k \in 1..Len(individuals) :
         individuals' = [individuals EXCEPT ![k] = result.child]
    /\ next_id' = next_id + 1
    /\ generation' = generation + 1
    /\ result' = NoResult
    /\ UNCHANGED <<grammar, max_depth, cases, penalty_coefficient, size,
                   new_population, pc>>

NextVar == Crossover \/ Mutation \/ Adopt

SpecVar == InitVar /\ [][NextVar]_vars

\* The tree is a derivation of the grammar P from `symbol`: a node with
\* children carries a non-terminal, its children's symbols are one of that
\* symbol's productions, and every leaf is a terminal.
RECURSIVE DerivesFrom(_, _, _)
DerivesFrom(P, tree, symbol) ==
    /\ tree.symbol = symbol
    /\ IF tree.children = <<>> THEN ~is_non_terminal(symbol)
       ELSE /\ is_non_terminal(symbol)
            /\ \E k \in 1..Len(productions_for(P, symbol)) :
                 LET production == productions_for(P, symbol)[k] IN
                 /\ Len(production) = Len(tree.children)
                 /\ \A c \in 1..Len(production) :
                      DerivesFrom(P, tree.children[c], production[c])

\* C1: every Individual crossover or mutation produces, from generated
\* individuals and from the children of earlier calls, has a derivation tree
\* that is a valid derivation of the grammar from <expr>.
C1_ChildIsValidDerivation ==
    (result.op \in {"crossover", "mutation"} /\ result.err = "none")
        => DerivesFrom(grammar, result.child.derivation, start_symbol)

\* C8: crossover and mutation leave their parents as they were: the parents'
\* node objects keep their symbols and children, and the parents keep their
\* derivation, expression, complexity and fitness, whatever positions are drawn.
C8_ParentsUnchanged ==
    result.op \in {"crossover", "mutation"}
        => /\ result.after = result.before
           /\ individuals = result.parents

\* A crossover that drew the root of parent_a and returned a child that
\* differs from both parents.
C8_Witness ==
    /\ result.op = "crossover" /\ result.err = "none"
    /\ result.i = 1 /\ result.a # result.b
    /\ \A k \in 1..2 : result.child.derivation # individuals[k].derivation
    /\ individuals[1].adjusted_fitness # None

(***************************************************************************)
(* Population: construction, evaluate, best, evolve_one_generation         *)
(***************************************************************************)
\* Populations have at most this many individuals.
MaxSize == 3
\* evolve_one_generation is called at most this many times on individuals
\* that have been evaluated; a call on individuals that have not been stops at
\* its first selection and is not counted.
MaxGenerations == 1
\* Individual.generate returns trees up to this height.
PopTreeDepth == 3

PopGrammar == build_arithmetic_grammar(<<"x">>, <<1>>, <<"+">>)
PopMaxDepth == 1
\* What grammar.generate(rng, max_depth) can return on PopGrammar, over the
\* draws of rng, up to the height PopTreeDepth.
PopTrees == generate(PopGrammar, PopMaxDepth, PopTreeDepth)
PopCaseLists ==
    { <<FitnessCase([name \in {"x"} |-> Int2Float(2)], Int2Float(1))>>,
      <<FitnessCase([name \in {"x"} |-> Int2Float(BigInput)], Int2Float(0))>> }

\* Population.__init__
Init ==
    /\ grammar = PopGrammar
    /\ max_depth = PopMaxDepth
    /\ cases \in PopCaseLists
    /\ penalty_coefficient = Rat(1, 10)
    /\ size \in 0..MaxSize
    /\ \E trees \in [1..size -> PopTrees] :
         individuals = [k \in 1..size |-> generate_individual(k, trees[k])]
    /\ new_population = <<>>
    /\ pc = "idle"
    /\ next_id = size + 1
    /\ generation = 0
    /\ result = NoResult

\* for ind in self.individuals: ind.evaluate(self.evaluator), from the k-th
\* individual on; an exception leaves the individuals before it scored.
RECURSIVE EvaluateEach(_, _, _, _)
EvaluateEach(inds, k, cs, coefficient) ==
    IF k > Len(inds) THEN [err |-> "none", individuals |-> inds]
    ELSE TheOnly({ IF r.err # "none" THEN [err |-> r.err, individuals |-> inds]
                   ELSE EvaluateEach([inds EXCEPT ![k] = r.val], k + 1, cs, coefficient)
                   : r \in {evaluator_evaluate(inds[k], cs, coefficient)} })

\* Population.evaluate
Evaluate ==
    /\ pc = "idle"
    /\ \E r \in {EvaluateEach(individuals, 1, cases, penalty_coefficient)} :
         /\ individuals' = r.individuals
         /\ result' = [op |-> "evaluate", err |-> r.err]
    /\ UNCHANGED <<grammar, max_depth, cases, penalty_coefficient, size,
                   new_population, pc, next_id, generation>>

\* max(iterable, key=...): the first item is the maximum so far, and each
\* later item replaces it when its key is greater; None is not ordered.
RECURSIVE MaxByAdjustedFitness(_, _, _)
MaxByAdjustedFitness(maximum, inds, k) ==
    IF k > Len(inds) THEN [err |-> "none", val |-> maximum]
    ELSE IF inds[k].adjusted_fitness = None \/ maximum.adjusted_fitness = None
    THEN [err |-> "TypeError", val |-> None]
    ELSE IF FGt(inds[k].adjusted_fitness[1], maximum.adjusted_fitness[1])
    THEN MaxByAdjustedFitness(inds[k], inds, k + 1)
    ELSE MaxByAdjustedFitness(maximum, inds, k + 1)

\* Population.best
best(inds) ==
    IF inds = <<>> THEN [err |-> "ValueError", val |-> None]
    ELSE MaxByAdjustedFitness(inds[1], inds, 2)

Best ==
    /\ pc = "idle"
    /\ \E r \in {best(individuals)} :
         result' = [op |-> "best", err |-> r.err, val |-> r.val]
    /\ UNCHANGED <<grammar, max_depth, cases, penalty_coefficient, size,
                   individuals, new_population, pc, next_id, generation>>

\* The loop that runs one slot too many.
SlotsLeft_OneMore(population, n) == Len(population) <= n

\* while len(new_population) < self.size
SlotsLeft(population, n) == Len(population) < n

\* raw_fitness and adjusted_fitness of every individual are still None, as
\* the dataclass sets them.
Unevaluated(inds) ==
    /\ inds # <<>>
    /\ \A k \in 1..Len(inds) :
         inds[k].raw_fitness = None /\ inds[k].adjusted_fitness = None

\* new_population: List[Individual] = []
EvolveBegin ==
    /\ pc = "idle"
    /\ generation < MaxGenerations \/ Unevaluated(individuals)
    /\ pc' = "evolving"
    /\ new_population' = <<>>
    /\ result' = [op |-> "evolve_one_generation", err |-> "none", at |-> "running",
                  previous |-> individuals, log |-> <<>>]
    /\ UNCHANGED <<grammar, max_depth, cases, penalty_coefficient, size,
                   individuals, next_id, generation>>

\* What tournament_selection(self.individuals, rng=self.rng) can return or
\* raise, over the samples rng can draw.
Selections(population) ==
    IF Len(population) < DefaultTournamentSize
    THEN { [err |-> t.err, val |-> t.val]
           : t \in {tournament_selection(population, DefaultTournamentSize, <<>>)} }
    ELSE { [err |-> t.err, val |-> t.val]
           : t \in { tournament_selection(population, DefaultTournamentSize, sample)
                     : sample \in Samples(Len(population), DefaultTournamentSize) } }

\* The position of an Individual object in the list.
IndexOf(inds, individual) == CHOOSE k \in 1..Len(inds) : inds[k].id = individual.id

\* An exception that leaves the generation built so far installed.
Raise_InstallsPartial(err, at) ==
    /\ pc' = "idle"
    /\ new_population' = <<>>
    /\ individuals' = new_population
    /\ result' = [result EXCEPT !.err = err, !.at = at]
    /\ UNCHANGED next_id

\* An exception leaves evolve_one_generation: its local list is dropped.
Raise(err, at) ==
    /\ pc' = "idle"
    /\ new_population' = <<>>
    /\ result' = [result EXCEPT !.err = err, !.at = at]
    /\ UNCHANGED <<individuals, next_id>>

\* new_population.append(child)
AppendChild(outcome, inds, by, selections) ==
    /\ pc' = "evolving"
    /\ new_population' = Append(new_population, outcome.child)
    /\ individuals' = inds
    /\ next_id' = next_id + 1
    /\ result' = [result EXCEPT !.log = Append(@, [id |-> outcome.child.id, by |-> by,
                                                   selections |-> selections])]

\* One pass of the loop when rng.random() < self.crossover_rate
CrossoverSlot ==
    \E p1 \in Selections(individuals) :
      IF p1.err # "none" THEN Raise(p1.err, "tournament_selection")
      ELSE \E p2 \in Selections(individuals) :
        IF p2.err # "none" THEN Raise(p2.err, "tournament_selection")
        ELSE \E i \in 1..NodeCount(p1.val.derivation),
                j \in 1..NodeCount(p2.val.derivation) :
             \E heap \in {HeapOf(individuals)} :
             \E r \in {crossover(next_id, heap.h, heap.roots[IndexOf(individuals, p1.val)],
                                 heap.roots[IndexOf(individuals, p2.val)], i, j)} :
               IF r.err # "none" THEN Raise(r.err, "crossover")
               ELSE AppendChild(r, ReadBack(individuals, heap.roots, r.h), "crossover", 2)

\* One pass of the loop otherwise
MutationSlot ==
    \E p \in Selections(individuals) :
      IF p.err # "none" THEN Raise(p.err, "tournament_selection")
      ELSE \E i \in 1..NodeCount(p.val.derivation), new_tree \in PopTrees :
           \E heap \in {HeapOf(individuals)} :
           \E r \in {mutation(next_id, heap.h, heap.roots[IndexOf(individuals, p.val)],
                              i, new_tree)} :
             IF r.err # "none" THEN Raise(r.err, "mutation")
             ELSE AppendChild(r, ReadBack(individuals, heap.roots, r.h), "mutation", 1)

EvolveSlot ==
    /\ pc = "evolving"
    /\ SlotsLeft(new_population, size)
    /\ \/ CrossoverSlot
       \/ MutationSlot
    /\ UNCHANGED <<grammar, max_depth, cases, penalty_coefficient, size, generation>>

\* self.individuals = new_population
EvolveEnd ==
    /\ pc = "evolving"
    /\ ~SlotsLeft(new_population, size)
    /\ individuals' = new_population
    /\ new_population' = <<>>
    /\ pc' = "idle"
    /\ generation' = generation + 1
    /\ result' = [result EXCEPT !.at = "returned"]
    /\ UNCHANGED <<grammar, max_depth, cases, penalty_coefficient, size, next_id>>

Next == Evaluate \/ Best \/ EvolveBegin \/ EvolveSlot \/ EvolveEnd

Spec == Init /\ [][Next]_vars

\* Every individual of the list has both fitness fields set.
Scored(inds) ==
    \A k \in 1..Len(inds) :
      inds[k].raw_fitness # None /\ inds[k].adjusted_fitness # None

HasReturned(op) == result.op = op /\ pc = "idle"

\* C4: in a population of size >= 3, evaluate() raises nothing and leaves
\* every individual with raw_fitness and adjusted_fitness set, and
\* evolve_one_generation() never fails in building a child's expression.
C4_RunNeverCrashes ==
    size >= 3 =>
      /\ result.op = "evaluate" => (result.err = "none" /\ Scored(individuals))
      /\ result.op = "evolve_one_generation" => result.at \notin {"crossover", "mutation"}

\* The list of a completed evolve_one_generation: `size` individuals, each
\* made by one crossover after two selections or by one mutation after one,
\* none of them an object of the previous generation.
NewGeneration ==
    /\ result.at = "returned" /\ result.err = "none"
    /\ Len(individuals) = size /\ Len(result.log) = size
    /\ \A k \in 1..Len(individuals) :
         /\ individuals[k].id = result.log[k].id
         /\ \/ result.log[k].by = "crossover" /\ result.log[k].selections = 2
            \/ result.log[k].by = "mutation" /\ result.log[k].selections = 1
         /\ \A m \in 1..Len(result.previous) : individuals[k].id # result.previous[m].id

\* C9 as stated: on a population of any size whose individuals are all
\* evaluated, evolve_one_generation() completes and leaves `size` new
\* individuals, each from one crossover or one mutation; the population
\* keeps its size.
C9_EvolveAnySize ==
    /\ Len(individuals) = size
    /\ (HasReturned("evolve_one_generation") /\ Scored(result.previous)) => NewGeneration

\* C9: on an evaluated population of size 0 or of at least the tournament
\* size 3, evolve_one_generation() completes and leaves `size` new
\* individuals, each from one crossover (two selections) or one mutation (one
\* selection) and none an object of the previous generation; on a size of 1
\* or 2 it raises ValueError at the first selection and leaves the population
\* as it was; the population keeps its size in every case.
C9_EvolveReplacesGeneration ==
    /\ Len(individuals) = size
    /\ (HasReturned("evolve_one_generation") /\ Scored(result.previous)) =>
         IF 0 < size /\ size < DefaultTournamentSize
         THEN /\ result.err = "ValueError" /\ result.at = "tournament_selection"
              /\ individuals = result.previous
         ELSE NewGeneration

\* A completed evolve_one_generation on three evaluated individuals that used
\* both crossover and mutation.
C9_Witness ==
    /\ HasReturned("evolve_one_generation") /\ Scored(result.previous)
    /\ size >= DefaultTournamentSize /\ result.at = "returned"
    /\ \E k, m \in 1..Len(result.log) :
         result.log[k].by = "crossover" /\ result.log[m].by = "mutation"

\* C10: best() on a population of size >= 1 fails when some individual has no
\* adjusted fitness; when all are scored it returns an individual whose
\* adjusted_fitness is not lower than any other's.
C10_BestFailsWhenUnscored ==
    (result.op = "best" /\ size >= 1) =>
      IF \E k \in 1..Len(individuals) : individuals[k].adjusted_fitness = None
      THEN result.err # "none"
      ELSE /\ result.err = "none"
           /\ \E k \in 1..Len(individuals) : individuals[k] = result.val
           /\ \A k \in 1..Len(individuals) :
                ~FLt(result.val.adjusted_fitness[1], individuals[k].adjusted_fitness[1])

\* C15: the individuals of a new population and of a generation that
\* evolve_one_generation returned have no raw_fitness and no
\* adjusted_fitness, and so have the children collected during a call;
\* evolve_one_generation() on a population of size >= 3 none of whose
\* individuals has been evaluated, after construction or after a previous
\* evolve_one_generation(), raises the ValueError of prefer_fittest at its
\* first selection; and whenever evolve_one_generation() raises, the list of
\* individuals is the one it was called on.
C15_EvaluateBeforeEvolve ==
    /\ result = NoResult => (size > 0 => Unevaluated(individuals))
    /\ (pc = "evolving" /\ new_population # <<>>) => Unevaluated(new_population)
    /\ (HasReturned("evolve_one_generation") /\ result.err = "none" /\ size > 0)
          => Unevaluated(individuals)
    /\ (HasReturned("evolve_one_generation") /\ size >= DefaultTournamentSize
            /\ Unevaluated(result.previous))
          => /\ result.err = "ValueError"
             /\ result.at = "tournament_selection"
             /\ result.log = <<>>
    /\ (HasReturned("evolve_one_generation") /\ result.err # "none")
          => individuals = result.previous

\* evolve_one_generation() called again on the generation a previous call
\* returned, without evaluate() in between, has raised.
C15_Witness ==
    /\ HasReturned("evolve_one_generation")
    /\ generation = 1
    /\ size >= DefaultTournamentSize
    /\ Unevaluated(result.previous)
    /\ result.err = "ValueError"
    /\ individuals = result.previous

(***************************************************************************)
(* SpecMet: compute_metrics on hand-built derivation trees                 *)
(***************************************************************************)
\* Hand-built trees have at most this many nodes ...
MaxMetricNodes == 5
\* ... and are wrapped at most this many times.
MaxWraps == 1

\* The positions of the nodes of a tree: the child indices from the root.
RECURSIVE Paths(_)
RECURSIVE PathsBelow(_, _)
Paths(node) == {<<>>} \cup PathsBelow(node.children, 1)

PathsBelow(children, i) ==
    IF children = <<>> THEN {}
    ELSE { <<i>> \o path : path \in Paths(Head(children)) }
            \cup PathsBelow(Tail(children), i + 1)

RECURSIVE NodeAt(_, _)
NodeAt(node, path) ==
    IF path = <<>> THEN node ELSE NodeAt(node.children[Head(path)], Tail(path))

\* DerivationNode(symbol, children) for every symbol of the pool and every
\* list of children, with at most n nodes in all.
MetricSymbols == {"<expr>", "1"}

RECURSIVE TreesUpTo(_)
RECURSIVE ForestsUpTo(_)
TreesUpTo(n) ==
    IF n = 0 THEN {}
    ELSE { DerivationNode(symbol, children) :
             symbol \in MetricSymbols, children \in ForestsUpTo(n - 1) }

ForestsUpTo(n) ==
    {<<>>} \cup
    UNION { { <<tree>> \o rest : rest \in ForestsUpTo(n - Cardinality(Paths(tree))) }
            : tree \in TreesUpTo(n) }

MetricTrees == TreesUpTo(MaxMetricNodes)

InitMet ==
    /\ grammar = EmptyGrammar
    /\ max_depth = 1
    /\ cases = NoEvaluatorCases
    /\ penalty_coefficient = Int2Float(0)
    /\ size = 0
    /\ individuals = <<>>
    /\ new_population = <<>>
    /\ pc = "idle"
    /\ next_id = 1
    /\ generation = 0
    /\ result = NoResult

\* compute_metrics(tree) of a hand-built tree
ComputeMetrics ==
    /\ result = NoResult
    /\ \E tree \in MetricTrees :
         \E metrics \in {compute_metrics(tree)} :
            result' = [op |-> "compute_metrics", err |-> "none", tree |-> tree,
                       val |-> metrics, inner |-> metrics, wraps |-> 0]
    /\ UNCHANGED <<grammar, max_depth, cases, penalty_coefficient, size,
                   individuals, new_population, pc, next_id, generation>>

\* compute_metrics(DerivationNode(symbol, [..., tree, ...])): the tree of the
\* last call under one more level, alone or beside a leaf.
ComputeMetricsWrapped ==
    /\ result.op = "compute_metrics"
    /\ result.wraps < MaxWraps
    /\ \E symbol \in MetricSymbols,
          before \in {<<>>, <<DerivationNode("1", <<>>)>>},
          after \in {<<>>, <<DerivationNode("<expr>", <<>>)>>} :
         \E tree \in {DerivationNode(symbol, before \o <<result.tree>> \o after)} :
            \E metrics \in {compute_metrics(tree)} :
               result' = [op |-> "compute_metrics", err |-> "none", tree |-> tree,
                          val |-> metrics, inner |-> result.val,
                          wraps |-> result.wraps + 1]
    /\ UNCHANGED <<grammar, max_depth, cases, penalty_coefficient, size,
                   individuals, new_population, pc, next_id, generation>>

NextMet == ComputeMetrics \/ ComputeMetricsWrapped

SpecMet == InitMet /\ [][NextMet]_vars

HasMeasured == result.op = "compute_metrics"

\* The number of nodes on the longest path from the root to a leaf.
LongestPath(tree) ==
    CHOOSE n \in 1..Cardinality(Paths(tree)) :
        /\ \E path \in Paths(tree) : Len(path) + 1 = n
        /\ \A path \in Paths(tree) : Len(path) + 1 <= n

\* The childless nodes whose symbol is not a non-terminal.
TerminalLeaves(tree) ==
    { path \in Paths(tree) :
        /\ NodeAt(tree, path).children = <<>>
        /\ ~is_non_terminal(NodeAt(tree, path).symbol) }

\* C14: compute_metrics returns the number of nodes of the tree, the number
\* of nodes on its longest root-to-leaf path and the number of childless
\* nodes whose symbol is not a non-terminal; node_count and depth are at
\* least 1, and a tree wrapped under one more level has a strictly larger
\* node_count and depth than the tree it wraps.
C14_MetricsCountTheTree ==
    HasMeasured =>
        /\ result.val.node_count = Cardinality(Paths(result.tree))
        /\ result.val.depth = LongestPath(result.tree)
        /\ result.val.terminal_count = Cardinality(TerminalLeaves(result.tree))
        /\ result.val.node_count >= 1
        /\ result.val.depth >= 1
        /\ result.wraps > 0 =>
              /\ result.val.node_count > result.inner.node_count
              /\ result.val.depth > result.inner.depth

\* A wrapped tree whose deepest child is not the first one, with a childless
\* non-terminal and a terminal leaf.
C14_Witness ==
    /\ HasMeasured
    /\ result.wraps = 1
    /\ Len(result.tree.children) = 3
    /\ result.val.depth = 4
    /\ result.val.terminal_count = 2
    /\ result.val.node_count = 7

====
